---- MODULE Spec2Model ----
(***************************************************************************)
(* The VectorTile binding of node-mapnik (src/src/mapnik_vector_tile.cpp): *)
(* the constructor and its input validation, the five accessors, the       *)
(* geometry simplicity / validity reports over the layers of a tile, and   *)
(* composite, layer, clear and the asynchronous operations.                *)
(*                                                                         *)
(* A JavaScript value is a record with its type t.  A number is the       *)
(* record [t |-> "number", v, wraps, frac]: the integer wraps * 2^32 + v   *)
(* with -2^31 <= v < 2^31, followed by a fractional part when frac.        *)
(***************************************************************************)
EXTENDS Integers, Sequences, FiniteSets, TLC

VARIABLES
    tile_,      \* the tile of the VectorTile object the calls are made on
    ret,        \* the outcome of the last call
    vtiles,     \* the other VectorTile objects of the program, in creation order
    callbacks   \* the invocations of completion callbacks so far

vars == <<tile_, ret, vtiles, callbacks>>

----------------------------------------------------------------------------
(* Bounds of the model *)

MaxZ == 2
MaxCoord == 4
MaxLayers == 2
\* features of a tile, over all its layers
MaxFeatures == 2
\* VectorTile objects besides the one the calls are made on
MaxSources == 2

----------------------------------------------------------------------------
(* Program constants *)

DefaultTileSize == 4096
DefaultBufferSize == 128
INT32_MAX == 2147483647
INT32_MIN == -INT32_MAX - 1
\* pow(2, z) no longer fits std::int64_t from this zoom on
INT64_DIGITS == 63

----------------------------------------------------------------------------
(* JavaScript values *)

Number(wraps, v, frac) ==
    [t |-> "number", v |-> v, wraps |-> wraps, frac |-> frac]
\* the integer n of the int32 range
Num(n) == Number(0, n, FALSE)
NotNum == [t |-> "string", v |-> 0, wraps |-> 0, frac |-> FALSE]
IsNumber(val) == val.t = "number"
\* Napi::Number::Int32Value(): the fractional part is dropped and the
\* integer reduced modulo 2^32 into the int32 range, which leaves v
Int32Value(val) == val.v
\* Napi::Number::Int64Value(): the fractional part is dropped; the
\* constructor is given numbers with wraps = 0 only, whose integer is v
Int64Value(val) == val.v

NoTile == [null |-> TRUE]
NoCall == [op |-> "none", info |-> <<>>, status |-> "none", msg |-> "", value |-> <<>>]

Returned(op, info, value) ==
    [op |-> op, info |-> info, status |-> "ok", msg |-> "", value |-> value]
Threw(op, info, msg) ==
    [op |-> op, info |-> info, status |-> "error", msg |-> msg, value |-> <<>>]

RECURSIVE Pow2(_)
Pow2(n) == IF n <= 0 THEN 1 ELSE 2 * Pow2(n - 1)

----------------------------------------------------------------------------
(* Error messages of the constructor and the setters *)

NoError == ""
ErrArgs == "please provide a z, x, y"
ErrZXYType == "required parameters (z, x, and y) must be a integers"
ErrNegative == "required parameters (z, x, and y) must be greater then or equal to zero"
ErrXRange == "required parameter x is out of range of possible values based on z value"
ErrYRange == "required parameter y is out of range of possible values based on z value"
ErrOptions == "optional fourth argument must be an options object"
ErrTileSizeType == "optional arg 'tile_size' must be a number"
ErrTileSize == "optional arg 'tile_size' must be greater then zero"
ErrBufferSizeType == "optional arg 'buffer_size' must be a number"
ErrBuffer == "too large of a negative buffer for tilesize"
ErrNumber == "Must provide a number"
ErrSetX == "tile x coordinate must be greater then or equal to zero"
ErrSetY == "tile y coordinate must be greater then or equal to zero"
ErrSetZ == "tile z coordinate must be greater then or equal to zero"
ErrSetTileSize == "tile size must be greater then zero"

AddressErrors == {ErrNegative, ErrXRange, ErrYRange}

----------------------------------------------------------------------------
(* 32-bit arithmetic of the buffer checks.  2 * buffer_size is an int      *)
(* multiplication; when it overflows the behaviour is undefined and the    *)
(* comparison may come out either way.  A sum a + b <= 0 is evaluated as   *)
(* b <= -a, which is the same comparison without leaving the integers of   *)
(* the model checker.                                                      *)

MulOverflows(val) == val > INT32_MAX \div 2 \/ val < INT32_MIN \div 2
AddOverflows(a, b) == b > INT32_MAX - a

\* line 226: static_cast<double>(tile_size) + (2 * buffer_size) <= 0
CtorBufferTooNegative(tile_size, buffer_size) ==
    IF MulOverflows(buffer_size)
    THEN BOOLEAN
    ELSE {2 * buffer_size <= -tile_size}

\* line 3663: static_cast<int>(tile_->tile_size()) + (2 * val) <= 0
SetterBufferTooNegative(tile_size, val) ==
    IF MulOverflows(val) THEN BOOLEAN
    ELSE IF AddOverflows(tile_size, 2 * val) THEN BOOLEAN
    ELSE {2 * val <= -tile_size}

----------------------------------------------------------------------------
(* The constructor, lines 143-232 *)

\* std::int64_t max_at_zoom = pow(2,z); x >= max_at_zoom.  For z >= 63 the
\* conversion of the double to int64 is undefined: pow_low is the outcome in
\* which it yields the lowest int64.
AtOrAboveMaxAtZoom(v, z, pow_low) ==
    IF z >= INT64_DIGITS THEN pow_low ELSE v >= Pow2(z)

\* the range checks written with > instead of >=
AddressError_offByOne(z, x, y, pow_low) ==
    IF z < 0 \/ x < 0 \/ y < 0 THEN ErrNegative
    ELSE IF z < INT64_DIGITS /\ x > Pow2(z) THEN ErrXRange
    ELSE IF z < INT64_DIGITS /\ y > Pow2(z) THEN ErrYRange
    ELSE IF z >= INT64_DIGITS /\ pow_low THEN ErrXRange
    ELSE NoError

AddressError(z, x, y, pow_low) ==
    IF z < 0 \/ x < 0 \/ y < 0 THEN ErrNegative
    ELSE IF AtOrAboveMaxAtZoom(x, z, pow_low) THEN ErrXRange
    ELSE IF AtOrAboveMaxAtZoom(y, z, pow_low) THEN ErrYRange
    ELSE NoError

HasOptions(info) == info.len > 3
OptTileSize(info) ==
    IF HasOptions(info) /\ info.options.has_tile_size
    THEN Int32Value(info.options.tile_size) ELSE DefaultTileSize
OptBufferSize(info) ==
    IF HasOptions(info) /\ info.options.has_buffer_size
    THEN Int32Value(info.options.buffer_size) ELSE DefaultBufferSize

OptionsError(info, too_negative) ==
    IF HasOptions(info) /\ info.options.t # "object" THEN ErrOptions
    ELSE IF HasOptions(info) /\ info.options.has_tile_size
            /\ ~IsNumber(info.options.tile_size) THEN ErrTileSizeType
    ELSE IF HasOptions(info) /\ info.options.has_tile_size
            /\ Int32Value(info.options.tile_size) <= 0 THEN ErrTileSize
    ELSE IF HasOptions(info) /\ info.options.has_buffer_size
            /\ ~IsNumber(info.options.buffer_size) THEN ErrBufferSizeType
    ELSE IF too_negative THEN ErrBuffer
    ELSE NoError

\* the constructor looking at its options before the address
ConstructorError_optionsFirst(info, pow_low, too_negative) ==
    IF info.len < 3 THEN ErrArgs
    ELSE IF ~IsNumber(info.z) \/ ~IsNumber(info.x) \/ ~IsNumber(info.y)
    THEN ErrZXYType
    ELSE IF OptionsError(info, too_negative) # NoError
    THEN OptionsError(info, too_negative)
    ELSE AddressError(Int64Value(info.z), Int64Value(info.x),
                      Int64Value(info.y), pow_low)

\* The first failing check of the constructor, NoError when all pass.
\* pow_low and too_negative resolve the two undefined computations.
ConstructorError(info, pow_low, too_negative) ==
    IF info.len < 3 THEN ErrArgs
    ELSE IF ~IsNumber(info.z) \/ ~IsNumber(info.x) \/ ~IsNumber(info.y)
    THEN ErrZXYType
    ELSE IF AddressError(Int64Value(info.z), Int64Value(info.x),
                         Int64Value(info.y), pow_low) # NoError
    THEN AddressError(Int64Value(info.z), Int64Value(info.x),
                      Int64Value(info.y), pow_low)
    ELSE OptionsError(info, too_negative)

\* the outcomes of the check of line 226 for these arguments
TooNegativeOutcomes(info) ==
    IF info.len >= 3 /\ OptionsError(info, FALSE) = NoError
    THEN CtorBufferTooNegative(OptTileSize(info), OptBufferSize(info))
    ELSE {FALSE}

PowOutcomes(info) ==
    IF info.len >= 3 /\ IsNumber(info.z) /\ Int64Value(info.z) >= INT64_DIGITS
    THEN BOOLEAN ELSE {FALSE}

\* line 231: std::make_shared<merc_tile>(x, y, z, tile_size, buffer_size)
merc_tile(x, y, z, tile_size, buffer_size, layers) ==
    [x |-> x, y |-> y, z |-> z, tile_size |-> tile_size,
     buffer_size |-> buffer_size, layers |-> layers]

\* the tile allocated before the buffer check instead of after it
ConstructedTile_early(info, err) ==
    IF err \in {NoError, ErrBuffer}
    THEN merc_tile(Int64Value(info.x), Int64Value(info.y), Int64Value(info.z),
                   OptTileSize(info), OptBufferSize(info), <<>>)
    ELSE NoTile

\* tile_ after the constructor ran: every failing check returns before
\* line 231, leaving the shared pointer empty.
ConstructedTile(info, err) ==
    IF err = NoError
    THEN merc_tile(Int64Value(info.x), Int64Value(info.y), Int64Value(info.z),
                   OptTileSize(info), OptBufferSize(info), <<>>)
    ELSE NoTile

----------------------------------------------------------------------------
(* Inputs of the constructor and the setters *)

ZValues == (-1 .. MaxZ) \cup {INT64_DIGITS}
CoordValues == -1 .. MaxCoord
TileSizeValues == {-1, 0, 1, 256, DefaultTileSize, INT32_MAX}
BufferSizeValues == {INT32_MIN, INT32_MIN \div 2 - 1, -2048, -128, -1, 0,
                     DefaultBufferSize, INT32_MAX \div 2 + 1}

JSNumbers(S) == {Num(n) : n \in S} \cup {NotNum}

\* what a setter is assigned: the values of S, a value that is no number,
\* 4294967301 (2^32 + 5) and 1.5
BeyondInt32 == Number(1, 5, FALSE)
Fractional == Number(0, 1, TRUE)
SetterValues(S) == JSNumbers(S) \cup {BeyondInt32, Fractional}

NoOptions == [t |-> "undefined", has_tile_size |-> FALSE, tile_size |-> NotNum,
              has_buffer_size |-> FALSE, buffer_size |-> NotNum]
OptionValues ==
    {[NoOptions EXCEPT !.t = "string"]}
    \cup {[t |-> "object", has_tile_size |-> TRUE, tile_size |-> ts,
           has_buffer_size |-> TRUE, buffer_size |-> bs] :
             ts \in JSNumbers(TileSizeValues), bs \in JSNumbers(BufferSizeValues)}
    \cup {[t |-> "object", has_tile_size |-> TRUE, tile_size |-> ts,
           has_buffer_size |-> FALSE, buffer_size |-> NotNum] :
             ts \in JSNumbers(TileSizeValues)}
    \cup {[t |-> "object", has_tile_size |-> FALSE, tile_size |-> NotNum,
           has_buffer_size |-> TRUE, buffer_size |-> bs] :
             bs \in JSNumbers(BufferSizeValues)}
    \cup {[NoOptions EXCEPT !.t = "object"]}

CtorInputs ==
    {[len |-> 2, z |-> Num(0), x |-> Num(0), y |-> NotNum, options |-> NoOptions]}
    \cup {[len |-> 3, z |-> z, x |-> x, y |-> y, options |-> NoOptions] :
            z \in JSNumbers(ZValues), x \in JSNumbers(CoordValues),
            y \in JSNumbers(CoordValues)}
    \cup {[len |-> 4, z |-> z, x |-> x, y |-> y, options |-> o] :
            z \in JSNumbers(ZValues), x \in JSNumbers(CoordValues),
            y \in JSNumbers(CoordValues), o \in OptionValues}

----------------------------------------------------------------------------
(* Actions: construction *)

\* new mapnik.VectorTile(z, x, y [, options]): runs once, on the object
\* being created
Constructor ==
    /\ tile_ = NoTile
    /\ UNCHANGED <<vtiles, callbacks>>
    /\ ret = NoCall
    /\ \E info \in CtorInputs :
         \E pow_low \in PowOutcomes(info), too_negative \in TooNegativeOutcomes(info) :
           LET err == ConstructorError(info, pow_low, too_negative) IN
             /\ tile_' = ConstructedTile(info, err)
             /\ ret' = IF err = NoError THEN Returned("new", info, <<>>)
                       ELSE Threw("new", info, err)

----------------------------------------------------------------------------
(* Actions: the five setters, lines 3573-3670 *)

set_tile_x ==
    /\ tile_ # NoTile
    /\ UNCHANGED <<vtiles, callbacks>>
    /\ \E value \in SetterValues(CoordValues) :
         IF ~IsNumber(value)
         THEN /\ ret' = Threw("set_x", value, ErrNumber)
              /\ UNCHANGED tile_
         ELSE IF Int32Value(value) < 0
         THEN /\ ret' = Threw("set_x", value, ErrSetX)
              /\ UNCHANGED tile_
         ELSE /\ tile_' = [tile_ EXCEPT !.x = Int32Value(value)]
              /\ ret' = Returned("set_x", value, <<>>)

set_tile_y ==
    /\ tile_ # NoTile
    /\ UNCHANGED <<vtiles, callbacks>>
    /\ \E value \in SetterValues(CoordValues) :
         IF ~IsNumber(value)
         THEN /\ ret' = Threw("set_y", value, ErrNumber)
              /\ UNCHANGED tile_
         ELSE IF Int32Value(value) < 0
         THEN /\ ret' = Threw("set_y", value, ErrSetY)
              /\ UNCHANGED tile_
         ELSE /\ tile_' = [tile_ EXCEPT !.y = Int32Value(value)]
              /\ ret' = Returned("set_y", value, <<>>)

set_tile_z ==
    /\ tile_ # NoTile
    /\ UNCHANGED <<vtiles, callbacks>>
    /\ \E value \in SetterValues(ZValues) :
         IF ~IsNumber(value)
         THEN /\ ret' = Threw("set_z", value, ErrNumber)
              /\ UNCHANGED tile_
         ELSE IF Int32Value(value) < 0
         THEN /\ ret' = Threw("set_z", value, ErrSetZ)
              /\ UNCHANGED tile_
         ELSE /\ tile_' = [tile_ EXCEPT !.z = Int32Value(value)]
              /\ ret' = Returned("set_z", value, <<>>)

\* the setter of the tile size storing the value before checking it
set_tile_size_storesFirst ==
    /\ tile_ # NoTile
    /\ UNCHANGED <<vtiles, callbacks>>
    /\ \E value \in SetterValues(TileSizeValues) :
         IF ~IsNumber(value)
         THEN /\ ret' = Threw("set_tile_size", value, ErrNumber)
              /\ UNCHANGED tile_
         ELSE /\ tile_' = [tile_ EXCEPT !.tile_size = Int32Value(value)]
              /\ ret' = IF Int32Value(value) <= 0
                        THEN Threw("set_tile_size", value, ErrSetTileSize)
                        ELSE Returned("set_tile_size", value, <<>>)

set_tile_size ==
    /\ tile_ # NoTile
    /\ UNCHANGED <<vtiles, callbacks>>
    /\ \E value \in SetterValues(TileSizeValues) :
         IF ~IsNumber(value)
         THEN /\ ret' = Threw("set_tile_size", value, ErrNumber)
              /\ UNCHANGED tile_
         ELSE IF Int32Value(value) <= 0
         THEN /\ ret' = Threw("set_tile_size", value, ErrSetTileSize)
              /\ UNCHANGED tile_
         ELSE /\ tile_' = [tile_ EXCEPT !.tile_size = Int32Value(value)]
              /\ ret' = Returned("set_tile_size", value, <<>>)

set_buffer_size ==
    /\ tile_ # NoTile
    /\ UNCHANGED <<vtiles, callbacks>>
    /\ \E value \in SetterValues(BufferSizeValues) :
         IF ~IsNumber(value)
         THEN /\ ret' = Threw("set_buffer_size", value, ErrNumber)
              /\ UNCHANGED tile_
         ELSE \E too_negative \in
                  SetterBufferTooNegative(tile_.tile_size, Int32Value(value)) :
                IF too_negative
                THEN /\ ret' = Threw("set_buffer_size", value, ErrBuffer)
                     /\ UNCHANGED tile_
                ELSE /\ tile_' = [tile_ EXCEPT !.buffer_size = Int32Value(value)]
                     /\ ret' = Returned("set_buffer_size", value, <<>>)

\* the five getters, lines 3548-3571
get_tile_x(t) == t.x
get_tile_y(t) == t.y
get_tile_z(t) == t.z
get_tile_size(t) == t.tile_size
get_buffer_size(t) == t.buffer_size



----------------------------------------------------------------------------
(* The content of a tile: layers in the order of the tile's bytes, each a  *)
(* name and its features in their order.  A feature message is what the    *)
(* readers of lines 3076-3095 and the pbf datasource see of it:            *)
(*   id            the ID field, 0 when the message has none               *)
(*   has_geom, has_geom_type   presence of the GEOMETRY and TYPE fields    *)
(*   gtype, parts  the geometry the command stream encodes: its type and,  *)
(*                 per part, the outcome of is_valid on that part          *)
(*   overlap       the parts of a multi geometry are invalid together      *)
(*   simple        the outcome of is_simple on the decoded geometry        *)
(*   decodable     the decoder accepts the command stream (it throws       *)
(*                 std::runtime_error otherwise)                           *)
(*   geojson_ok    the outcome of to_geojson on a feature carrying it      *)
(*   attrs         the attribute keys                                      *)
(***************************************************************************)

Feature(id, gtype, parts, simple, attrs) ==
    [id |-> id, has_geom |-> TRUE, has_geom_type |-> TRUE, gtype |-> gtype,
     parts |-> parts, overlap |-> FALSE, simple |-> simple, decodable |-> TRUE,
     geojson_ok |-> TRUE, attrs |-> attrs]

Features ==
    { Feature(0, "line_string", <<TRUE>>, TRUE, {}),
      Feature(7, "polygon", <<FALSE>>, FALSE, {"name"}),
      Feature(2, "multi_polygon", <<FALSE, TRUE, FALSE>>, FALSE, {"name"}),
      [Feature(1, "multi_polygon", <<TRUE, TRUE>>, TRUE, {}) EXCEPT !.overlap = TRUE],
      Feature(3, "multi_line_string", <<TRUE, FALSE>>, FALSE, {"name"}),
      [Feature(5, "polygon", <<FALSE>>, FALSE, {}) EXCEPT !.decodable = FALSE],
      [Feature(4, "point", <<FALSE>>, TRUE, {"name"}) EXCEPT !.geojson_ok = FALSE],
      [Feature(6, "point", <<>>, TRUE, {"name"}) EXCEPT !.has_geom = FALSE],
      [Feature(9, "polygon", <<FALSE>>, FALSE, {}) EXCEPT !.has_geom_type = FALSE],
      Feature(8, "polygon", <<>>, TRUE, {}) }

\* the name of the layer at position n of a tile
LayerNameAt(n) ==
    IF n = 1 THEN "roads" ELSE IF n = 2 THEN "parcels" ELSE "points"

\* the layer sequences of at most n layers, the first of them at position
\* at, holding at most k features
RECURSIVE LayerSeqs(_, _, _)
LayerSeqs(at, n, k) ==
    IF n = 0 THEN {<<>>}
    ELSE {<<>>} \cup
         UNION { { <<[name |-> LayerNameAt(at), features |-> fs]>> \o rest :
                     fs \in [1..j -> Features],
                     rest \in LayerSeqs(at + 1, n - 1, k - j) } : j \in 0..k }

\* tiles handed to the constructor as an External (lines 147-151)
ExternalTiles ==
    { merc_tile(0, 0, 0, DefaultTileSize, DefaultBufferSize, ls) :
        ls \in LayerSeqs(1, MaxLayers, MaxFeatures) }

MultiTypes == {"multi_line_string", "multi_polygon"}
PartType(gtype) ==
    IF gtype = "multi_polygon" THEN "polygon"
    ELSE IF gtype = "multi_line_string" THEN "line_string"
    ELSE gtype

----------------------------------------------------------------------------
(* Decoding and the geometry predicates *)

\* A decoded geometry: its type, its parts, the coordinates it is in, the
\* outcomes of the predicates on it, and which piece of the encoded
\* geometry it is (part 0: the whole, part n: its n-th part).
Geometry(f, crs) ==
    [type |-> IF Len(f.parts) = 0 THEN "empty" ELSE f.gtype,
     parts |-> f.parts, part |-> 0, crs |-> crs,
     valid |-> (\A i \in 1..Len(f.parts) : f.parts[i]) /\ ~f.overlap,
     simple |-> f.simple]

\* the element of a multi geometry the loops "for (auto const& ls : geom)"
\* and "for (auto const& poly : geom)" visit at position n
PartOf(geom, n) ==
    [type |-> PartType(geom.type), parts |-> <<geom.parts[n]>>, part |-> n,
     crs |-> geom.crs, valid |-> geom.parts[n], simple |-> geom.simple]

\* mapnik::geometry::is_valid(geom, message)
is_valid(geom) == geom.valid
\* mapnik::geometry::is_simple(geom)
is_simple(geom) == geom.simple
InvalidMessage == "Geometry is invalid"

\* a reprojection that hands back the geometry it was given
reproject_copy_none(geom) == geom

\* mapnik::geometry::reproject_copy(geom, prj_trans, n_err), merc to wgs84
reproject_copy(geom) == [geom EXCEPT !.crs = "wgs84"]

----------------------------------------------------------------------------
(* The validity visitor, lines 2733-2998.  An operator that can throw      *)
(* returns [errors, thrown, what]: the error list so far, and whether and  *)
(* with which message an exception left it.                                *)

Running(errors) == [errors |-> errors, thrown |-> FALSE, what |-> ""]
Thrown(errors, what) == [errors |-> errors, thrown |-> TRUE, what |-> what]
ErrGeoJSON == "Failed to generate GeoJSON geometry"
ErrDecode == "Vector Tile has an invalid geometry"

\* mapnik::util::to_geojson(feature_str, feature_new): the string, as the
\* GeoJSON value it denotes
to_geojson(feature_new) ==
    [ok |-> feature_new.geojson_ok,
     str |-> [type |-> "Feature", id |-> feature_new.id,
              geometry |-> feature_new.geometry,
              properties |-> feature_new.data]]

\* the block shared by all operator() bodies: build feature_new from the
\* feature's context, id and data and the offending geometry, serialise it
\* and append the error
ReportInvalid(errors, feature, layer_name, geom) ==
    LET feature_new == [id |-> feature.id, data |-> feature.data,
                        geometry |-> geom, geojson_ok |-> feature.geojson_ok]
        json == to_geojson(feature_new)
    IN  IF ~json.ok THEN Thrown(errors, ErrGeoJSON)
        ELSE Running(Append(errors,
                 [message |-> InvalidMessage,
                  layer |-> layer_name,
                  feature_id |-> feature.id,
                  geojson |-> [type |-> "FeatureCollection",
                               features |-> <<json.str>>]]))

\* the loop over the parts of a multi geometry, from part n on
RECURSIVE VisitParts(_, _, _, _, _)
VisitParts(errors, feature, layer_name, geom, n) ==
    IF n > Len(geom.parts) THEN Running(errors)
    ELSE IF is_valid(PartOf(geom, n))
    THEN VisitParts(errors, feature, layer_name, geom, n + 1)
    ELSE LET r == ReportInvalid(errors, feature, layer_name, PartOf(geom, n))
         IN  IF r.thrown THEN r
             ELSE VisitParts(r.errors, feature, layer_name, geom, n + 1)

\* the visitor without the part-by-part branch
visitor_geom_valid_whole(errors, feature, layer_name, split_multi_features, geom) ==
    IF geom.type = "empty" THEN Running(errors)
    ELSE IF is_valid(geom) THEN Running(errors)
    ELSE ReportInvalid(errors, feature, layer_name, geom)

\* the visitor reporting an empty geometry as invalid
visitor_geom_valid_reportsEmpty(errors, feature, layer_name, split_multi_features, geom) ==
    IF geom.type = "empty" THEN ReportInvalid(errors, feature, layer_name, geom)
    ELSE IF geom.type \in MultiTypes /\ split_multi_features
    THEN VisitParts(errors, feature, layer_name, geom, 1)
    ELSE IF is_valid(geom) THEN Running(errors)
    ELSE ReportInvalid(errors, feature, layer_name, geom)

\* visitor_geom_valid(errors, feature, layer_name, split_multi_features)
\* applied to geom
visitor_geom_valid(errors, feature, layer_name, split_multi_features, geom) ==
    IF geom.type = "empty" THEN Running(errors)
    ELSE IF geom.type \in MultiTypes /\ split_multi_features
    THEN VisitParts(errors, feature, layer_name, geom, 1)
    ELSE IF is_valid(geom) THEN Running(errors)
    ELSE ReportInvalid(errors, feature, layer_name, geom)

----------------------------------------------------------------------------
(* layer_not_valid, lines 3000-3109, and layer_not_simple, lines 2699-2731 *)

\* what tile_featureset_pbf::next() does with the feature message f: skip
\* it (no geometry to return), throw, or return the feature with its id,
\* its attributes and its geometry in mercator coordinates
FeaturesetSkips(f) == ~f.has_geom \/ ~f.has_geom_type \/ Len(f.parts) = 0
DatasourceFeature(f) ==
    [id |-> f.id, data |-> f.attrs, geojson_ok |-> f.geojson_ok,
     geometry |-> Geometry(f, "merc")]

\* lines 3099-3102: feature_factory::create(ctx, 1) with an empty context,
\* and the geometry decoded into grid coordinates
CreatedFeature(f) ==
    [id |-> 1, data |-> {}, geojson_ok |-> f.geojson_ok,
     geometry |-> Geometry(f, "grid")]

\* the loops of layer_not_valid over features n.. of the layer
RECURSIVE layer_not_valid_from(_, _, _, _, _, _)
layer_not_valid_from(layer, n, errors, split_multi_features, lat_lon, web_merc) ==
    IF n > Len(layer.features) THEN Running(errors)
    ELSE
      LET f == layer.features[n]
          skipped == IF web_merc \/ lat_lon THEN FeaturesetSkips(f)
                     ELSE ~(f.has_geom /\ f.has_geom_type)
          feature == IF web_merc \/ lat_lon THEN DatasourceFeature(f)
                     ELSE CreatedFeature(f)
          geom == IF lat_lon THEN reproject_copy(feature.geometry)
                  ELSE feature.geometry
      IN  IF skipped
          THEN layer_not_valid_from(layer, n + 1, errors, split_multi_features,
                                    lat_lon, web_merc)
          ELSE IF ~f.decodable THEN Thrown(errors, ErrDecode)
          ELSE LET r == visitor_geom_valid(errors, feature, layer.name,
                                           split_multi_features, geom)
               IN  IF r.thrown THEN r
                   ELSE layer_not_valid_from(layer, n + 1, r.errors,
                                             split_multi_features, lat_lon, web_merc)

layer_not_valid(layer, errors, split_multi_features, lat_lon, web_merc) ==
    layer_not_valid_from(layer, 1, errors, split_multi_features, lat_lon, web_merc)

\* the loop of layer_not_simple over features n.. of the layer
RECURSIVE layer_not_simple_from(_, _, _)
layer_not_simple_from(layer, n, errors) ==
    IF n > Len(layer.features) THEN Running(errors)
    ELSE
      LET f == layer.features[n]
          feature == DatasourceFeature(f)
      IN  IF FeaturesetSkips(f) THEN layer_not_simple_from(layer, n + 1, errors)
          ELSE IF ~f.decodable THEN Thrown(errors, ErrDecode)
          ELSE IF ~is_simple(feature.geometry)
          THEN layer_not_simple_from(layer, n + 1,
                   Append(errors, [layer |-> layer.name, feature_id |-> feature.id]))
          ELSE layer_not_simple_from(layer, n + 1, errors)

layer_not_simple(layer, errors) == layer_not_simple_from(layer, 1, errors)

----------------------------------------------------------------------------
(* vector_tile_not_simple, lines 3111-3124, vector_tile_not_valid, lines   *)
(* 3144-3163: the loop over the layers n.. of the tile                     *)

RECURSIVE vector_tile_not_simple_from(_, _, _)
vector_tile_not_simple_from(tile, n, errors) ==
    IF n > Len(tile.layers) THEN Running(errors)
    ELSE LET r == layer_not_simple(tile.layers[n], errors)
         IN  IF r.thrown THEN r
             ELSE vector_tile_not_simple_from(tile, n + 1, r.errors)

vector_tile_not_simple(tile) == vector_tile_not_simple_from(tile, 1, <<>>)

RECURSIVE vector_tile_not_valid_from(_, _, _, _, _, _)
vector_tile_not_valid_from(tile, n, errors, split_multi_features, lat_lon, web_merc) ==
    IF n > Len(tile.layers) THEN Running(errors)
    ELSE LET r == layer_not_valid(tile.layers[n], errors, split_multi_features,
                                  lat_lon, web_merc)
         IN  IF r.thrown THEN r
             ELSE vector_tile_not_valid_from(tile, n + 1, r.errors,
                                             split_multi_features, lat_lon, web_merc)

vector_tile_not_valid(tile, split_multi_features, lat_lon, web_merc) ==
    vector_tile_not_valid_from(tile, 1, <<>>, split_multi_features, lat_lon, web_merc)

\* lines 3126-3142 and 3165-3183: the JavaScript arrays of the errors
make_not_simple_array(errors) ==
    [i \in 1..Len(errors) |->
        [layer |-> errors[i].layer, featureId |-> errors[i].feature_id]]

\* the array of the validity errors filled from the last error to the first
make_not_valid_array_reversed(errors) ==
    [i \in 1..Len(errors) |->
        LET e == errors[Len(errors) + 1 - i] IN
        [layer |-> e.layer, message |-> e.message,
         featureId |-> e.feature_id, geojson |-> e.geojson]]

make_not_valid_array(errors) ==
    [i \in 1..Len(errors) |->
        [layer |-> errors[i].layer, message |-> errors[i].message,
         featureId |-> errors[i].feature_id, geojson |-> errors[i].geojson]]

----------------------------------------------------------------------------
(* The options of reportGeometryValiditySync, lines 3262-3311 *)

ErrFirstArg == "The first argument must be an object"
ErrSplit == "option 'split_multi_features' must be a boolean"
ErrLatLon == "option 'lat_lon' must be a boolean"
ErrWebMerc == "option 'web_merc' must be a boolean"

Bool(b) == [t |-> "boolean", v |-> b]
NotBool == [t |-> "number", v |-> FALSE]
Absent == [t |-> "undefined", v |-> FALSE]
IsBoolean(val) == val.t = "boolean"
Has(val) == val.t # "undefined"

NoValidityOptions ==
    [t |-> "undefined", split_multi_features |-> Absent, lat_lon |-> Absent,
     web_merc |-> Absent]
GivenChoices == {Absent, Bool(TRUE)}
ValidityOptions(s, l, w) ==
    [t |-> "object", split_multi_features |-> s, lat_lon |-> l, web_merc |-> w]
ValidityInputs ==
    {[len |-> 0, options |-> NoValidityOptions]}
    \cup {[len |-> 1, options |-> [NoValidityOptions EXCEPT !.t = "string"]]}
    \cup {[len |-> 1, options |-> ValidityOptions(s, l, w)] :
            s \in GivenChoices, l \in GivenChoices, w \in GivenChoices}
    \cup {[len |-> 1, options |->
                ValidityOptions(Bool(FALSE), Bool(FALSE), Bool(FALSE))]}
    \cup {[len |-> 1, options |-> ValidityOptions(NotBool, o, o)] : o \in GivenChoices}
    \cup {[len |-> 1, options |-> ValidityOptions(o, NotBool, o)] : o \in GivenChoices}
    \cup {[len |-> 1, options |-> ValidityOptions(o, o, NotBool)] : o \in GivenChoices}

\* the option checks without the one of web_merc
ValidityOptionsError_noWebMerc(info) ==
    IF info.len < 1 THEN NoError
    ELSE IF info.options.t # "object" THEN ErrFirstArg
    ELSE IF Has(info.options.split_multi_features)
            /\ ~IsBoolean(info.options.split_multi_features) THEN ErrSplit
    ELSE IF Has(info.options.lat_lon)
            /\ ~IsBoolean(info.options.lat_lon) THEN ErrLatLon
    ELSE NoError

ValidityOptionsError(info) ==
    IF info.len < 1 THEN NoError
    ELSE IF info.options.t # "object" THEN ErrFirstArg
    ELSE IF Has(info.options.split_multi_features)
            /\ ~IsBoolean(info.options.split_multi_features) THEN ErrSplit
    ELSE IF Has(info.options.lat_lon)
            /\ ~IsBoolean(info.options.lat_lon) THEN ErrLatLon
    ELSE IF Has(info.options.web_merc)
            /\ ~IsBoolean(info.options.web_merc) THEN ErrWebMerc
    ELSE NoError

\* the value of a boolean option, false when absent
OptionValue(info, key) ==
    info.len >= 1 /\ Has(info.options[key]) /\ info.options[key].v

----------------------------------------------------------------------------
(* Actions: construction from an existing tile, and the reports *)

\* lines 147-151: new VectorTile(External) wraps the given tile
ConstructorExternal ==
    /\ tile_ = NoTile
    /\ UNCHANGED <<vtiles, callbacks>>
    /\ ret = NoCall
    /\ \E t \in ExternalTiles :
         /\ tile_' = t
         /\ ret' = Returned("new_external", <<>>, <<>>)

\* a simplicity report that consumes the layers it reads
reportGeometrySimplicitySync_consumes ==
    /\ tile_ # NoTile
    /\ UNCHANGED <<vtiles, callbacks>>
    /\ LET r == vector_tile_not_simple(tile_) IN
         ret' = IF r.thrown THEN Threw("simplicity", <<>>, r.what)
                ELSE Returned("simplicity", <<>>, make_not_simple_array(r.errors))
    /\ tile_' = [tile_ EXCEPT !.layers = <<>>]

\* lines 3221-3241
reportGeometrySimplicitySync ==
    /\ tile_ # NoTile
    /\ UNCHANGED <<vtiles, callbacks>>
    /\ LET r == vector_tile_not_simple(tile_) IN
         ret' = IF r.thrown THEN Threw("simplicity", <<>>, r.what)
                ELSE Returned("simplicity", <<>>, make_not_simple_array(r.errors))
    /\ UNCHANGED tile_

\* lines 3262-3324
reportGeometryValiditySync ==
    /\ tile_ # NoTile
    /\ UNCHANGED <<vtiles, callbacks>>
    /\ \E info \in ValidityInputs :
         LET err == ValidityOptionsError(info)
             r == vector_tile_not_valid(tile_,
                      OptionValue(info, "split_multi_features"),
                      OptionValue(info, "lat_lon"),
                      OptionValue(info, "web_merc"))
         IN  ret' = IF err # NoError THEN Threw("validity", info, err)
                    ELSE IF r.thrown THEN Threw("validity", info, r.what)
                    ELSE Returned("validity", info, make_not_valid_array(r.errors))
    /\ UNCHANGED tile_

----------------------------------------------------------------------------
(* The layers of a tile as the binding reports them.  tile_->get_layers()  *)
(* is the list of the layer names in the order of the tile's bytes, the    *)
(* empty layers are those without a feature, the painted ones those with.  *)

\* lines 1157-1169
names(t) == [i \in 1..Len(t.layers) |-> t.layers[i].name]
\* lines 1252-1264, tile_->get_empty_layers()
emptyLayers(t) ==
    {t.layers[i].name : i \in {j \in 1..Len(t.layers) : Len(t.layers[j].features) = 0}}
\* lines 1280-1292, tile_->get_painted_layers()
paintedLayers(t) ==
    {t.layers[i].name : i \in {j \in 1..Len(t.layers) : Len(t.layers[j].features) > 0}}
\* lines 1307-1310, tile_->is_empty()
empty(t) == \A i \in 1..Len(t.layers) : Len(t.layers[i].features) = 0
\* lines 1325-1328, tile_->is_painted()
painted(t) == paintedLayers(t) # {}

----------------------------------------------------------------------------
(* The tiles and the arguments of composite, layer and clear *)

Undefined == [t |-> "undefined", v |-> FALSE]

PointFeature == Feature(1, "point", <<TRUE>>, TRUE, {"name"})
Layer(name, features) == [name |-> name, features |-> features]

\* what the tiles of these operations hold
LayerContents ==
    { <<>>,
      <<Layer("points", <<PointFeature>>)>>,
      <<Layer("a", <<PointFeature>>), Layer("b", <<>>)>> }

\* the tile the calls are made on
TargetTiles ==
    { merc_tile(0, 0, 0, DefaultTileSize, DefaultBufferSize, ls) : ls \in LayerContents }
\* the tiles handed to composite in its array
SourceTiles ==
    { merc_tile(x, 0, 1, DefaultTileSize, DefaultBufferSize, ls) :
        x \in 0..1, ls \in LayerContents }

\* the first argument of composite: a value that is no array, or an array
\* whose elements are VectorTile objects (v: the position in vtiles) or not
NotArray == [t |-> "string", v |-> <<>>]
Array(elements) == [t |-> "array", v |-> elements]
TileRef(i) == [t |-> "VectorTile", v |-> i]
NotTile == [t |-> "object", v |-> 0]
ArrayValues(n) ==
    {NotArray, Array(<<>>)}
    \cup (IF n = 0 THEN {Array(<<NotTile>>)}
          ELSE {Array([i \in 1..n |-> TileRef(i)]), Array(<<TileRef(1), NotTile>>)})

\* the options of composite: none, or an object with one option set.  A
\* max_extent is given by the length of its array.
NoCompositeOptions == [t |-> "undefined", key |-> "", v |-> 0]
CompositeOption(key, v) == [t |-> "object", key |-> key, v |-> v]
CompositeOptionValues ==
    { NoCompositeOptions,
      CompositeOption("area_threshold", 1),
      CompositeOption("area_threshold", -1),
      CompositeOption("simplify_distance", -1),
      CompositeOption("scale", 0),
      CompositeOption("fill_type", 99),
      CompositeOption("threading_mode", 99),
      CompositeOption("max_extent", 3) }

CompositeInputs(n, callbackGiven) ==
    { [array |-> a, options |-> o, callback |-> c] :
        a \in ArrayValues(n), o \in CompositeOptionValues, c \in callbackGiven }

\* the argument of layer
LayerArgs ==
    { [len |-> 0, layer_id |-> Undefined] }
    \cup { [len |-> 1, layer_id |-> [t |-> "string", v |-> n]] :
             n \in {"a", "b", "c", "points"} }
    \cup { [len |-> 1, layer_id |-> Num(0)] }

\* the arguments of the other asynchronous operations: whether those
\* before the callback are acceptable, and whether a callback is given
AsyncInputs == [args_ok : BOOLEAN, callback : BOOLEAN]

----------------------------------------------------------------------------
(* Actions: composite, layer, clear, addImage, addImageBuffer, render and  *)
(* the asynchronous reports.  Each returns env.Undefined() first thing;    *)
(* what follows the return statement is inside a comment.                  *)

\* lines 147-151: the object the calls are made on wraps a tile
ConstructorTarget ==
    /\ tile_ = NoTile
    /\ \E t \in TargetTiles :
         /\ tile_' = t
         /\ ret' = Returned("new_external", <<>>, <<>>)
    /\ UNCHANGED <<vtiles, callbacks>>

\* lines 147-151: one more VectorTile object, wrapping a tile
ConstructorSource ==
    /\ Len(vtiles) < MaxSources
    /\ \E t \in SourceTiles :
         /\ vtiles' = Append(vtiles, t)
         /\ ret' = Returned("new_external", <<>>, <<>>)
    /\ UNCHANGED <<tile_, callbacks>>

\* a composite that hands the layers of its sources over to the target
compositeSync_moves ==
    /\ tile_ # NoTile
    /\ \E info \in CompositeInputs(Len(vtiles), {FALSE}) :
         ret' = Returned("compositeSync", info, Undefined)
    /\ vtiles' = [i \in DOMAIN vtiles |-> [vtiles[i] EXCEPT !.layers = <<>>]]
    /\ UNCHANGED <<tile_, callbacks>>

\* lines 308-641
compositeSync ==
    /\ tile_ # NoTile
    /\ \E info \in CompositeInputs(Len(vtiles), {FALSE}) :
         ret' = Returned("compositeSync", info, Undefined)
    /\ UNCHANGED <<tile_, vtiles, callbacks>>

\* lines 728-1035
composite ==
    /\ tile_ # NoTile
    /\ \E info \in CompositeInputs(Len(vtiles), BOOLEAN) :
         ret' = Returned("composite", info, Undefined)
    /\ UNCHANGED <<tile_, vtiles, callbacks>>

\* lines 1187-1237
layer ==
    /\ tile_ # NoTile
    /\ \E info \in LayerArgs : ret' = Returned("layer", info, Undefined)
    /\ UNCHANGED <<tile_, vtiles, callbacks>>

\* clearSync with its commented-out d->clear() in effect
clearSync_clears ==
    /\ tile_ # NoTile
    /\ ret' = Returned("clearSync", [callback |-> FALSE], Undefined)
    /\ tile_' = [tile_ EXCEPT !.layers = <<>>]
    /\ UNCHANGED <<vtiles, callbacks>>

\* lines 2562-2571
clearSync ==
    /\ tile_ # NoTile
    /\ ret' = Returned("clearSync", [callback |-> FALSE], Undefined)
    /\ UNCHANGED <<tile_, vtiles, callbacks>>

\* lines 2598-2627
clear ==
    /\ tile_ # NoTile
    /\ \E c \in BOOLEAN : ret' = Returned("clear", [callback |-> c], Undefined)
    /\ UNCHANGED <<tile_, vtiles, callbacks>>

\* lines 1507-1608
addImage ==
    /\ tile_ # NoTile
    /\ \E info \in AsyncInputs : ret' = Returned("addImage", info, Undefined)
    /\ UNCHANGED <<tile_, vtiles, callbacks>>

\* lines 1766-1819
addImageBuffer ==
    /\ tile_ # NoTile
    /\ \E info \in AsyncInputs : ret' = Returned("addImageBuffer", info, Undefined)
    /\ UNCHANGED <<tile_, vtiles, callbacks>>

\* lines 2010-2311
render ==
    /\ tile_ # NoTile
    /\ \E info \in AsyncInputs : ret' = Returned("render", info, Undefined)
    /\ UNCHANGED <<tile_, vtiles, callbacks>>

\* lines 3340-3367
reportGeometrySimplicity ==
    /\ tile_ # NoTile
    /\ \E info \in AsyncInputs :
         ret' = Returned("reportGeometrySimplicity", info, Undefined)
    /\ UNCHANGED <<tile_, vtiles, callbacks>>

\* lines 3428-3504
reportGeometryValidity ==
    /\ tile_ # NoTile
    /\ \E info \in AsyncInputs :
         ret' = Returned("reportGeometryValidity", info, Undefined)
    /\ UNCHANGED <<tile_, vtiles, callbacks>>

\* lines 1353-1467
addImageSync ==
    /\ tile_ # NoTile
    /\ \E info \in AsyncInputs :
         ret' = Returned("addImageSync", [info EXCEPT !.callback = FALSE], Undefined)
    /\ UNCHANGED <<tile_, vtiles, callbacks>>

\* lines 1681-1731
addImageBufferSync ==
    /\ tile_ # NoTile
    /\ \E info \in AsyncInputs :
         ret' = Returned("addImageBufferSync", [info EXCEPT !.callback = FALSE], Undefined)
    /\ UNCHANGED <<tile_, vtiles, callbacks>>

----------------------------------------------------------------------------
(* The methods of the class, lines 72-114: the property name DefineClass   *)
(* registers each handler under.                                           *)

InstanceMethod ==
    [render |-> "render", setData |-> "setData", setDataSync |-> "setDataSync",
     getData |-> "getData", getDataSync |-> "getDataSync", addData |-> "addData",
     addDataSync |-> "addDataSync", composite |-> "composite",
     compositeSync |-> "compositeSync", query |-> "query", queryMany |-> "queryMany",
     extent |-> "extent", bufferedExtent |-> "bufferedExtent", names |-> "names",
     layer |-> "layer", emptyLayerss |-> "emptyLayers",
     paintedLayers |-> "paintedLayers", toJSON |-> "toJSON",
     toGeoJSON |-> "toGeoJSON", toGeoJSONSync |-> "toGeoJSONSync",
     addGeoJSON |-> "addGeoJSON", addImage |-> "addImage",
     addImageSync |-> "addImageSync", addImageBuffer |-> "addImageBuffer",
     addImageBufferSync |-> "addImageBufferSync",
     reportGeometrySimplicity |-> "reportGeometrySimplicity",
     reportGeometrySimplicitySync |-> "reportGeometrySimplicitySync",
     reportGeometryValidity |-> "reportGeometryValidity",
     reportGeometryValiditySync |-> "reportGeometryValiditySync",
     painted |-> "painted", clear |-> "clear", clearSync |-> "clearSync",
     empty |-> "empty", info |-> "info"]

\* the handlers that only read the tile, applied to it
Inspect(handler, t) ==
    CASE handler = "names" -> names(t)
      [] handler = "emptyLayers" -> emptyLayers(t)
      [] handler = "paintedLayers" -> paintedLayers(t)
      [] handler = "empty" -> empty(t)
      [] handler = "painted" -> painted(t)

\* the property names a program reads these handlers by
InspectorNames ==
    {"names", "emptyLayers", "emptyLayerss", "paintedLayers", "empty", "painted"}

ErrNotAFunction == "is not a function"

\* vt[name](): the property is the registered function, or undefined, and
\* calling undefined raises a TypeError
InstanceMethodCall ==
    /\ tile_ # NoTile
    /\ \E name \in InspectorNames :
         ret' = IF name \in DOMAIN InstanceMethod
                THEN Returned("call", [name |-> name],
                              Inspect(InstanceMethod[name], tile_))
                ELSE Threw("call", [name |-> name], ErrNotAFunction)
    /\ UNCHANGED <<tile_, vtiles, callbacks>>

----------------------------------------------------------------------------
(* Properties of the constructor and the accessors *)

\* v < 2^z, for v of the int32 range
BelowPow2(v, z) == z > 30 \/ v < Pow2(z)
ValidAddress(z, x, y) ==
    z >= 0 /\ x >= 0 /\ y >= 0 /\ BelowPow2(x, z) /\ BelowPow2(y, z)

\* tile_size > 0 and tile_size + 2*buffer_size > 0 in exact arithmetic
ValidSizes(tile_size, buffer_size) ==
    /\ tile_size > 0
    /\ \/ buffer_size >= 0
       \/ buffer_size >= INT32_MIN \div 2 /\ 2 * buffer_size > -tile_size

NumericAddress(info) ==
    info.len >= 3 /\ IsNumber(info.z) /\ IsNumber(info.x) /\ IsNumber(info.y)

\* C1: construction with numeric (z, x, y) succeeds only if z >= 0,
\* 0 <= x < 2^z and 0 <= y < 2^z, and every address that violates this
\* fails with an address error.
C1_AddressValidated ==
    (ret.op = "new" /\ NumericAddress(ret.info)) =>
        /\ ret.status = "ok" => ValidAddress(ret.info.z.v, ret.info.x.v, ret.info.y.v)
        /\ ~ValidAddress(ret.info.z.v, ret.info.x.v, ret.info.y.v) =>
              ret.status = "error" /\ ret.msg \in AddressErrors /\ tile_ = NoTile

\* new Tile(0, 1, 0) was attempted and failed on the range of x
C1_Witness ==
    /\ ret.op = "new" /\ ret.info.len = 3
    /\ ret.info.z = Num(0) /\ ret.info.x = Num(1) /\ ret.info.y = Num(0)
    /\ ret.status = "error" /\ ret.msg = ErrXRange

\* C2: in every reachable state of a tile its address satisfies
\* 0 <= x < 2^z and 0 <= y < 2^z.
C2_AddressInvariant ==
    tile_ # NoTile => ValidAddress(tile_.z, tile_.x, tile_.y)

\* C3: in every reachable state of a tile tile_size > 0 and
\* tile_size + 2*buffer_size > 0.
C3_SizeInvariant ==
    tile_ # NoTile => ValidSizes(tile_.tile_size, tile_.buffer_size)

GivenTileSize(info) ==
    IF info.len > 3 /\ info.options.has_tile_size
    THEN info.options.tile_size.v ELSE 4096
GivenBufferSize(info) ==
    IF info.len > 3 /\ info.options.has_buffer_size
    THEN info.options.buffer_size.v ELSE 128
WellTypedOptions(info) ==
    info.len > 3 =>
        /\ info.options.t = "object"
        /\ info.options.has_tile_size => IsNumber(info.options.tile_size)
        /\ info.options.has_buffer_size => IsNumber(info.options.buffer_size)

\* C4: construction rejects tile_size <= 0 and every (tile_size,
\* buffer_size) with tile_size + 2*buffer_size <= 0, absent options take
\* the defaults 4096 and 128, and the constructed tile reports exactly the
\* given or default values through tileSize and bufferSize.
C4_OptionsValidated ==
    (ret.op = "new" /\ NumericAddress(ret.info) /\ WellTypedOptions(ret.info)
     /\ ValidAddress(ret.info.z.v, ret.info.x.v, ret.info.y.v)) =>
        /\ ~ValidSizes(GivenTileSize(ret.info), GivenBufferSize(ret.info)) =>
              ret.status = "error"
        /\ ret.status = "ok" =>
              /\ get_tile_size(tile_) = GivenTileSize(ret.info)
              /\ get_buffer_size(tile_) = GivenBufferSize(ret.info)

\* C5: every input-validation failure of the constructor is raised before
\* any tile is created: after a failed construction no underlying tile
\* exists.
C5_NoTileAfterFailure ==
    (ret.op = "new" /\ ret.status = "error") => tile_ = NoTile

\* a construction that failed on the last check of all, the buffer check
C5_Witness ==
    ret.op = "new" /\ ret.status = "error" /\ ret.msg = ErrBuffer /\ tile_ = NoTile


----------------------------------------------------------------------------
(* Properties of the reports.  What a report should contain is computed    *)
(* here from the content of the tile alone.                                *)

\* the features of a tile in the order of its bytes, each with the name of
\* its layer
RECURSIVE FeaturesFrom(_, _)
FeaturesFrom(layers, n) ==
    IF n > Len(layers) THEN <<>>
    ELSE [i \in 1..Len(layers[n].features) |->
             [layer |-> layers[n].name, f |-> layers[n].features[i]]]
         \o FeaturesFrom(layers, n + 1)
TileFeatures(tile) == FeaturesFrom(tile.layers, 1)

RECURSIVE Flatten(_)
Flatten(seqs) == IF seqs = <<>> THEN <<>> ELSE Head(seqs) \o Flatten(Tail(seqs))

RECURSIVE InvalidPartsFrom(_, _)
InvalidPartsFrom(parts, n) ==
    IF n > Len(parts) THEN <<>>
    ELSE (IF parts[n] THEN <<>> ELSE <<n>>) \o InvalidPartsFrom(parts, n + 1)

HasGeometry(f) == f.has_geom /\ f.has_geom_type /\ Len(f.parts) > 0
WholeInvalid(f) == f.overlap \/ \E n \in 1..Len(f.parts) : ~f.parts[n]

\* the pieces of feature f a validity report has an error for: part n of a
\* multi geometry checked part by part, 0 for a geometry checked as a whole
Offending(f, split) ==
    IF ~HasGeometry(f) THEN <<>>
    ELSE IF f.gtype \in MultiTypes /\ split THEN InvalidPartsFrom(f.parts, 1)
    ELSE IF WholeInvalid(f) THEN <<0>>
    ELSE <<>>

Requested(info, key) == info.len >= 1 /\ info.options[key] = Bool(TRUE)
ValidOptions(info) ==
    info.len >= 1 =>
        /\ info.options.t = "object"
        /\ \A key \in {"split_multi_features", "lat_lon", "web_merc"} :
              info.options[key].t \in {"undefined", "boolean"}

ValidityReturned == ret.op = "validity" /\ ret.status = "ok"
SimplicityReturned == ret.op = "simplicity" /\ ret.status = "ok"

\* for every error of the returned validity report, in order, the value
\* Of(feature, piece) of the feature it is about
ExpectedPerError(tile, split, Of(_, _)) ==
    LET fs == TileFeatures(tile) IN
    Flatten([i \in 1..Len(fs) |->
               [k \in 1..Len(Offending(fs[i].f, split)) |->
                   Of(fs[i], Offending(fs[i].f, split)[k])]])

\* the entries of a simplicity report over the features in fs
RECURSIVE NotSimpleEntries(_)
NotSimpleEntries(fs) ==
    IF fs = <<>> THEN <<>>
    ELSE (IF HasGeometry(Head(fs).f) /\ Head(fs).f.decodable /\ ~Head(fs).f.simple
          THEN <<[layer |-> Head(fs).layer, featureId |-> Head(fs).f.id]>>
          ELSE <<>>) \o NotSimpleEntries(Tail(fs))

\* C6: reportGeometrySimplicitySync visits every feature of every layer and
\* returns exactly one {layer, featureId} entry for each feature whose
\* geometry is not simple and none for a simple one.
C6_SimplicityEntries ==
    ret.op = "simplicity" =>
        /\ ret.status = "ok"
        /\ ret.value = NotSimpleEntries(TileFeatures(tile_))

PieceOf(lf, piece) == piece
\* C7: in a validity report a multi-polygon or multi-line-string feature
\* has, when split_multi_features is true, exactly one error per invalid
\* part and none for a valid part, and otherwise at most one error for the
\* whole feature; a non-multi geometry has at most one error.
C7_ErrorsPerFeature ==
    ValidityReturned =>
        [i \in 1..Len(ret.value) |-> ret.value[i].geojson.features[1].geometry.part]
          = ExpectedPerError(tile_, Requested(ret.info, "split_multi_features"),
                             PieceOf)

\* a part-by-part report over a multi-polygon with two invalid parts and a
\* valid one in between
C7_Witness ==
    /\ ValidityReturned
    /\ Requested(ret.info, "split_multi_features")
    /\ Len(tile_.layers) = 1
    /\ tile_.layers[1].features =
          <<Feature(2, "multi_polygon", <<FALSE, TRUE, FALSE>>, FALSE, {"name"})>>
    /\ Len(ret.value) = 2

IdOf(lf, piece) == lf.f.id
\* C8: every validity error's featureId is the id of the feature of the
\* tile whose geometry failed the check, under every combination of the
\* options.
C8_FeatureIdReported ==
    ValidityReturned =>
        [i \in 1..Len(ret.value) |-> ret.value[i].featureId]
          = ExpectedPerError(tile_, Requested(ret.info, "split_multi_features"), IdOf)

CarriedOf(lf, piece) ==
    [type |-> IF piece = 0 THEN lf.f.gtype ELSE PartType(lf.f.gtype),
     part |-> piece, properties |-> lf.f.attrs]
\* C9: every validity error's geojson is a FeatureCollection of exactly one
\* feature, which carries the offending geometry and the attributes of the
\* feature it was decoded from, with or without lat_lon and web_merc.
C9_GeoJSONCarriesFeature ==
    ValidityReturned =>
        /\ \A i \in 1..Len(ret.value) :
              /\ ret.value[i].geojson.type = "FeatureCollection"
              /\ Len(ret.value[i].geojson.features) = 1
        /\ [i \in 1..Len(ret.value) |->
              [type |-> ret.value[i].geojson.features[1].geometry.type,
               part |-> ret.value[i].geojson.features[1].geometry.part,
               properties |-> ret.value[i].geojson.features[1].properties]]
             = ExpectedPerError(tile_, Requested(ret.info, "split_multi_features"),
                                CarriedOf)

Undecodable(f) == f.has_geom /\ f.has_geom_type /\ ~f.decodable
NoGeoJSON(f) == HasGeometry(f) /\ WholeInvalid(f) /\ ~f.geojson_ok
\* the features of the tile whose processing does not fail
SimplicityProcessable(lf) == ~Undecodable(lf.f)
ValidityProcessable(lf) == ~Undecodable(lf.f) /\ ~NoGeoJSON(lf.f)
\* the tile without the features whose validity check fails
WithoutFailing(tile) ==
    [tile EXCEPT !.layers =
        [n \in 1..Len(tile.layers) |->
            [tile.layers[n] EXCEPT !.features =
                LET lfs == [i \in 1..Len(tile.layers[n].features) |->
                               [layer |-> tile.layers[n].name,
                                f |-> tile.layers[n].features[i]]]
                    kept == SelectSeq(lfs, ValidityProcessable)
                IN  [i \in 1..Len(kept) |-> kept[i].f]]]]

\* C10: a report never aborts on one feature's failure: whatever happens
\* while one feature is processed, the call returns the list of results
\* and the list covers all remaining features.
C10_NeverAborts ==
    /\ ret.op = "simplicity" =>
          /\ ret.status = "ok"
          /\ ret.value = NotSimpleEntries(SelectSeq(TileFeatures(tile_),
                                                   SimplicityProcessable))
    /\ (ret.op = "validity" /\ ValidOptions(ret.info)) =>
          /\ ret.status = "ok"
          /\ [i \in 1..Len(ret.value) |->
                ret.value[i].geojson.features[1].geometry.part]
               = ExpectedPerError(WithoutFailing(tile_),
                     Requested(ret.info, "split_multi_features"), PieceOf)

\* C11: reportGeometrySimplicitySync and reportGeometryValiditySync do not
\* mutate the tile: its content, address, tile_size, buffer_size and layers
\* are the same after the call as before it, whether the call returns a
\* list or raises an error.
C11_ReportsLeaveTile ==
    [][ret'.op \in {"simplicity", "validity"} => tile_' = tile_]_vars

\* a report over a tile with content has raised an error
C11_Witness ==
    /\ ret.op \in {"simplicity", "validity"}
    /\ ret.status = "error"
    /\ tile_ # NoTile
    /\ Len(tile_.layers) > 0

\* the coordinates a validity report tests the geometries in
ExpectedCrs(info) ==
    IF Requested(info, "lat_lon") THEN "wgs84"
    ELSE IF Requested(info, "web_merc") THEN "merc"
    ELSE "grid"

\* C12: in a validity report the geometry of each feature is reprojected
\* from mercator to WGS84 before the validity test exactly when lat_lon is
\* true (also when web_merc is true as well); with web_merc alone it is
\* tested in mercator coordinates, and with neither option in tile-grid
\* coordinates.  The geometry tested is the one the error's GeoJSON holds.
C12_ReprojectedWhenLatLon ==
    ValidityReturned =>
        \A i \in DOMAIN ret.value :
            ret.value[i].geojson.features[1].geometry.crs = ExpectedCrs(ret.info)

\* a report with lat_lon and web_merc both true has found an invalid geometry
C12_Witness ==
    /\ ValidityReturned
    /\ Requested(ret.info, "lat_lon")
    /\ Requested(ret.info, "web_merc")
    /\ Len(ret.value) > 0

OptionErrors == {ErrFirstArg, ErrSplit, ErrLatLon, ErrWebMerc}

\* C13: reportGeometryValiditySync validates its options before doing any
\* work: a first argument that is not an object, or a split_multi_features,
\* lat_lon or web_merc value that is not a boolean, raises an error, and no
\* feature is checked and no result list is returned.
C13_OptionsBeforeWork ==
    (ret.op = "validity" /\ ~ValidOptions(ret.info)) =>
        /\ ret.status = "error"
        /\ ret.msg \in OptionErrors
        /\ ret.value = <<>>

\* invalid options were given for a tile whose features cannot all be
\* decoded: checking any of them would have raised another error
C13_Witness ==
    /\ ret.op = "validity"
    /\ ~ValidOptions(ret.info)
    /\ ret.info.len >= 1
    /\ ret.info.options.t = "object"
    /\ tile_ # NoTile
    /\ \E i \in DOMAIN TileFeatures(tile_) : ~TileFeatures(tile_)[i].f.decodable


----------------------------------------------------------------------------
(* Properties of composite, layer, clear and the asynchronous operations *)

CompositeOps == {"compositeSync", "composite"}

IsTileRef(e) == e.t = "VectorTile"
InvalidCompositeOptions(o) ==
    /\ o.t = "object"
    /\ \/ o.key = "area_threshold" /\ o.v < 0
       \/ o.key = "simplify_distance" /\ o.v < 0
       \/ o.key = "scale" /\ o.v <= 0
       \/ o.key = "fill_type" /\ o.v \notin 0..3
       \/ o.key = "threading_mode" /\ o.v \notin 1..3
       \/ o.key = "max_extent" /\ o.v # 4
InvalidCompositeCall(info) ==
    \/ info.array.t # "array"
    \/ Len(info.array.v) = 0
    \/ \E i \in DOMAIN info.array.v : ~IsTileRef(info.array.v[i])
    \/ InvalidCompositeOptions(info.options)

\* the tiles a valid call names, in the order of its array
SourcesOf(info, tiles) == [i \in DOMAIN info.array.v |-> tiles[info.array.v[i].v]]
PointsTile(x) ==
    merc_tile(x, 0, 1, DefaultTileSize, DefaultBufferSize,
              <<Layer("points", <<PointFeature>>)>>)
HasLayerOf(t, name, n) ==
    \E i \in DOMAIN t.layers : t.layers[i].name = name /\ Len(t.layers[i].features) = n
NamesOf(t) == {t.layers[i].name : i \in DOMAIN t.layers}

\* C14: compositing two source tiles at (1,0,0) and (1,1,0), each with a
\* "points" layer of one feature, into an empty destination with default
\* options leaves the destination with a "points" layer of exactly two
\* features that is reported as painted; in general a successful composite
\* leaves the destination with a layer for every layer name of its sources.
C14_CompositeMerges ==
    [][(ret'.op = "compositeSync" /\ ret'.status = "ok"
        /\ ~InvalidCompositeCall(ret'.info)
        /\ ret'.info.options = NoCompositeOptions)
       => LET sources == SourcesOf(ret'.info, vtiles) IN
            /\ \A i \in DOMAIN sources : NamesOf(sources[i]) \subseteq NamesOf(tile_')
            /\ (sources = <<PointsTile(0), PointsTile(1)>> /\ tile_.layers = <<>>)
                  => /\ HasLayerOf(tile_', "points", 2)
                     /\ "points" \in paintedLayers(tile_')]_vars

\* C15: a composite call with invalid arguments or options (first argument
\* not an array, an empty array, an element that is not a tile, negative
\* area_threshold or simplify_distance, non-positive scale, out-of-range
\* fill_type, invalid threading_mode, malformed max_extent) aborts the whole
\* call with a reported error and leaves the destination tile unmodified.
C15_InvalidCompositeAborts ==
    [][(ret'.op \in CompositeOps /\ InvalidCompositeCall(ret'.info))
       => (ret'.status = "error" /\ tile_' = tile_)]_vars

\* C16: for every composite call, each source tile's content, address and
\* layers are the same before and after the call.
C16_SourcesUntouched ==
    [][ret'.op \in CompositeOps => vtiles' = vtiles]_vars

\* a composite call was made on source tiles of which one has layers
C16_Witness ==
    /\ ret.op \in CompositeOps
    /\ ~InvalidCompositeCall(ret.info)
    /\ \E i \in DOMAIN ret.info.array.v :
          Len(vtiles[ret.info.array.v[i].v].layers) > 0

NamesLayer(info) == info.len >= 1 /\ info.layer_id.t = "string"

\* C17: extracting a layer name that does not exist in the tile returns a
\* 'layer not found' error, never an empty tile or an absent value without
\* an error.
C17_MissingLayerIsError ==
    (ret.op = "layer" /\ NamesLayer(ret.info)
     /\ ret.info.layer_id.v \notin NamesOf(tile_))
    => ret.status = "error"

\* value is a tile holding exactly the layer called name of tile t
IsExtract(value, t, name) ==
    /\ value # Undefined
    /\ value.x = t.x /\ value.y = t.y /\ value.z = t.z
    /\ value.tile_size = t.tile_size /\ value.buffer_size = t.buffer_size
    /\ names(value) = <<name>>
    /\ \E i \in DOMAIN t.layers : t.layers[i] = value.layers[1]

\* C18: extracting an existing layer by name returns a new tile with the
\* same address, tile_size and buffer_size whose layer names are exactly
\* that one name and whose content is a copy of that layer; the original
\* tile is unchanged.
C18_LayerExtracted ==
    [][(ret'.op = "layer" /\ NamesLayer(ret'.info)
        /\ ret'.info.layer_id.v \in NamesOf(tile_))
       => /\ ret'.status = "ok"
          /\ IsExtract(ret'.value, tile_, ret'.info.layer_id.v)
          /\ tile_' = tile_]_vars

\* C19: after clearSync on a tile in any state the tile's data has length
\* 0, names(), emptyLayers() and paintedLayers() are empty, empty() is true
\* and painted() is false, while z, x, y, tile_size and buffer_size are
\* unchanged.
C19_ClearEmpties ==
    [][ret'.op = "clearSync"
       => /\ tile_'.layers = <<>>
          /\ names(tile_') = <<>>
          /\ emptyLayers(tile_') = {} /\ paintedLayers(tile_') = {}
          /\ empty(tile_') /\ ~painted(tile_')
          /\ tile_' = [tile_ EXCEPT !.layers = <<>>]]_vars

AsyncOps ==
    {"composite", "clear", "addImage", "addImageBuffer", "render",
     "reportGeometrySimplicity", "reportGeometryValidity"}
Invocations(op) == SelectSeq(callbacks, LAMBDA c : c.op = op)

\* C20: every asynchronous operation that is given a completion callback
\* (composite, clear, addImage, addImageBuffer, render,
\* reportGeometrySimplicity, reportGeometryValidity) eventually invokes
\* that callback.
C20_CallbackInvoked ==
    \A op \in AsyncOps :
        (ret.op = op /\ ret.info.callback) ~> (Len(Invocations(op)) > 0)

----------------------------------------------------------------------------
(* Properties of the class and the accessors *)

\* the operations the comments of the source document, by their @name
DocumentedNames ==
    {"compositeSync", "composite", "extent", "bufferedExtent", "names", "layer",
     "emptyLayers", "paintedLayers", "empty", "painted", "addImageSync",
     "addImage", "addImageBufferSync", "addImageBuffer", "render", "clearSync",
     "clear", "reportGeometrySimplicitySync", "reportGeometryValiditySync",
     "reportGeometrySimplicity", "reportGeometryValidity"}
EmptyNamesOf(t) ==
    {n \in NamesOf(t) :
        \E i \in DOMAIN t.layers : t.layers[i].name = n /\ t.layers[i].features = <<>>}

\* C21: the class exposes each documented operation under its documented
\* name; in particular the method documented as emptyLayers is callable as
\* emptyLayers and returns the names of the tile's empty layers.
C21_DocumentedNamesCallable ==
    (ret.op = "call" /\ ret.info.name \in DocumentedNames) =>
        /\ ret.status = "ok"
        /\ ret.info.name = "emptyLayers" => ret.value = EmptyNamesOf(tile_)

\* C23: for every 32-bit signed buffer_size and every positive 32-bit
\* tile_size, the constructor and the bufferSize setter accept the value if
\* and only if tile_size + 2*buffer_size > 0 in exact integer arithmetic.
C23_ExactBufferCheck ==
    /\ (ret.op = "set_buffer_size" /\ IsNumber(ret.info)) =>
          (ret.status = "ok" <=> ValidSizes(tile_.tile_size, ret.info.v))
    /\ (ret.op = "new" /\ NumericAddress(ret.info) /\ WellTypedOptions(ret.info)
        /\ ret.info.z.v < INT64_DIGITS
        /\ ValidAddress(ret.info.z.v, ret.info.x.v, ret.info.y.v)
        /\ GivenTileSize(ret.info) > 0) =>
          (ret.status = "ok"
             <=> ValidSizes(GivenTileSize(ret.info), GivenBufferSize(ret.info)))

SetterOps == {"set_x", "set_y", "set_z", "set_tile_size", "set_buffer_size"}
FieldOf(op) ==
    CASE op = "set_x" -> "x" [] op = "set_y" -> "y" [] op = "set_z" -> "z"
      [] op = "set_tile_size" -> "tile_size"
      [] op = "set_buffer_size" -> "buffer_size"
GetterOf(op, t) ==
    CASE op = "set_x" -> get_tile_x(t) [] op = "set_y" -> get_tile_y(t)
      [] op = "set_z" -> get_tile_z(t)
      [] op = "set_tile_size" -> get_tile_size(t)
      [] op = "set_buffer_size" -> get_buffer_size(t)

\* C24: each of the five setters, when it accepts a value, changes only
\* its own field: the other four fields and the content of the tile are
\* unchanged, and the matching getter then returns the value just set.
C24_SetterChangesOwnField ==
    [][(ret'.op \in SetterOps /\ ret'.status = "ok") =>
          /\ tile_' = [tile_ EXCEPT ![FieldOf(ret'.op)] = tile_'[FieldOf(ret'.op)]]
          /\ Num(GetterOf(ret'.op, tile_')) = ret'.info]_vars

\* the calls the setter op is to reject on tile t; for the buffer size,
\* those of them whose 2 * value is an int
MustReject(op, value, t) ==
    \/ ~IsNumber(value)
    \/ op \in {"set_x", "set_y", "set_z"} /\ value.v < 0
    \/ op = "set_tile_size" /\ value.v <= 0
    \/ op = "set_buffer_size" /\ value.v >= INT32_MIN \div 2
          /\ value.v < 0 /\ 2 * value.v <= -t.tile_size

\* C25: a setter call that is rejected (non-numeric value; negative x, y or
\* z; tile size <= 0; buffer size with tile_size + 2*buffer_size <= 0)
\* raises an error and leaves every field of the tile, including the one
\* being set, exactly as it was before the call.
C25_RejectedSetterLeavesTile ==
    [][ret'.op \in SetterOps =>
          /\ MustReject(ret'.op, ret'.info, tile_) => ret'.status = "error"
          /\ ret'.status = "error" => tile_' = tile_]_vars

\* a buffer size was rejected for making the tile's size non-positive
C25_Witness ==
    /\ ret.op = "set_buffer_size" /\ ret.status = "error" /\ ret.msg = ErrBuffer
    /\ IsNumber(ret.info) /\ ret.info.v >= INT32_MIN \div 2
    /\ tile_ # NoTile

\* the operations whose handler returns before doing anything
StubOps ==
    {"compositeSync", "composite", "layer", "clearSync", "clear", "addImage",
     "addImageSync", "addImageBuffer", "addImageBufferSync", "render",
     "reportGeometrySimplicity", "reportGeometryValidity"}

\* C26: compositeSync, composite, layer, clearSync, clear, addImage,
\* addImageSync, addImageBuffer, addImageBufferSync, render,
\* reportGeometrySimplicity and reportGeometryValidity return an absent value
\* for every argument list, without raising an error, without invoking a
\* callback and without changing the receiving tile or any tile passed as
\* an argument.
C26_StubsDoNothing ==
    [][ret'.op \in StubOps =>
          /\ ret'.status = "ok" /\ ret'.value = Undefined
          /\ callbacks' = callbacks
          /\ tile_' = tile_ /\ vtiles' = vtiles]_vars

\* clearSync was called on a tile that has layers
C26_Witness ==
    ret.op = "clearSync" /\ tile_ # NoTile /\ Len(tile_.layers) > 0

\* the features a validity report is to pass over: no geometry field, no
\* geometry-type field, or a geometry that decodes to nothing
PassedOver(f) == ~f.has_geom \/ ~f.has_geom_type \/ Len(f.parts) = 0

\* the features of fs a report is not to pass over, in their order
RECURSIVE CheckedFeatures(_)
CheckedFeatures(fs) ==
    IF fs = <<>> THEN <<>>
    ELSE (IF PassedOver(Head(fs)) THEN <<>> ELSE <<Head(fs)>>)
         \o CheckedFeatures(Tail(fs))

\* tile without the features its report is to pass over
WithoutPassedOver(tile) ==
    [tile EXCEPT !.layers =
        [n \in 1..Len(tile.layers) |->
            [tile.layers[n] EXCEPT !.features = CheckedFeatures(@)]]]

\* the errors of a whole-geometry check: one per feature that is checked
\* and invalid
CheckedInvalid(tile) ==
    {i \in 1..Len(TileFeatures(tile)) :
        /\ ~PassedOver(TileFeatures(tile)[i].f)
        /\ WholeInvalid(TileFeatures(tile)[i].f)}

\* C27: in a validity report with neither lat_lon nor web_merc set, a
\* feature that lacks a geometry field or a geometry-type field is skipped
\* and contributes no entry; a feature whose decoded geometry is empty
\* contributes no entry under any options; every other feature is checked
\* exactly once.
C27_SkippedAndEmptyFeatures ==
    ValidityReturned =>
        LET split == Requested(ret.info, "split_multi_features")
            rest == vector_tile_not_valid(WithoutPassedOver(tile_), split,
                        Requested(ret.info, "lat_lon"),
                        Requested(ret.info, "web_merc"))
        IN  /\ ~rest.thrown
            /\ ret.value = make_not_valid_array(rest.errors)
            /\ ~split => Len(ret.value) = Cardinality(CheckedInvalid(tile_))

\* a report with neither lat_lon nor web_merc over an invalid polygon
\* without a geometry type and an invalid polygon with one
C27_Witness ==
    /\ ValidityReturned
    /\ ~Requested(ret.info, "lat_lon") /\ ~Requested(ret.info, "web_merc")
    /\ \E i, k \in 1..Len(TileFeatures(tile_)) :
          LET fs == TileFeatures(tile_) IN
          /\ ~fs[i].f.has_geom_type /\ WholeInvalid(fs[i].f)
          /\ ~PassedOver(fs[k].f) /\ WholeInvalid(fs[k].f)
    /\ Len(ret.value) = 1

\* where an error comes from: the layer, and the piece of the geometry
PlaceOf(lf, piece) ==
    [layer |-> lf.layer,
     type |-> IF piece = 0 THEN lf.f.gtype ELSE PartType(lf.f.gtype),
     part |-> piece]
\* tile cut after its first n layers
FirstLayers(tile, n) == [tile EXCEPT !.layers = SubSeq(@, 1, n)]

\* C28: the entries of a simplicity or validity report appear in the order
\* the features are visited: layers in the order of the tile's bytes,
\* features in their order within the layer, parts in their order within a
\* split multi-geometry; each entry's layer field is the name of the layer
\* that contains the feature, and an entry once appended is never changed
\* or removed by later features.
C28_EntriesInVisitingOrder ==
    /\ SimplicityReturned =>
          /\ ret.value = NotSimpleEntries(TileFeatures(tile_))
          /\ \A n \in 0..Len(tile_.layers) :
                LET r == vector_tile_not_simple(FirstLayers(tile_, n)) IN
                /\ ~r.thrown
                /\ make_not_simple_array(r.errors)
                     = SubSeq(ret.value, 1, Len(r.errors))
    /\ ValidityReturned =>
          LET split == Requested(ret.info, "split_multi_features") IN
          /\ [i \in 1..Len(ret.value) |->
                [layer |-> ret.value[i].layer,
                 type |-> ret.value[i].geojson.features[1].geometry.type,
                 part |-> ret.value[i].geojson.features[1].geometry.part]]
               = ExpectedPerError(tile_, split, PlaceOf)
          /\ \A n \in 0..Len(tile_.layers) :
                LET r == vector_tile_not_valid(FirstLayers(tile_, n), split,
                             Requested(ret.info, "lat_lon"),
                             Requested(ret.info, "web_merc")) IN
                /\ ~r.thrown
                /\ make_not_valid_array(r.errors)
                     = SubSeq(ret.value, 1, Len(r.errors))

\* a validity report with an entry of the first layer before one of the
\* second
C28_Witness ==
    /\ ValidityReturned
    /\ Len(ret.value) = 2
    /\ ret.value[1].layer = LayerNameAt(1)
    /\ ret.value[2].layer = LayerNameAt(2)
    /\ ret.value[1].geojson.features[1].geometry.type
         # ret.value[2].geojson.features[1].geometry.type

\* the first of the checks before the one of tile_size + 2*buffer_size
\* that the arguments fail, in the order the constructor is to make them
FirstFailure(info) ==
    IF info.len < 3 THEN ErrArgs
    ELSE IF ~NumericAddress(info) THEN ErrZXYType
    ELSE IF info.z.v < 0 \/ info.x.v < 0 \/ info.y.v < 0 THEN ErrNegative
    ELSE IF ~BelowPow2(info.x.v, info.z.v) THEN ErrXRange
    ELSE IF ~BelowPow2(info.y.v, info.z.v) THEN ErrYRange
    ELSE IF info.len = 3 THEN NoError
    ELSE IF info.options.t # "object" THEN ErrOptions
    ELSE IF info.options.has_tile_size /\ ~IsNumber(info.options.tile_size)
    THEN ErrTileSizeType
    ELSE IF info.options.has_tile_size /\ info.options.tile_size.v <= 0
    THEN ErrTileSize
    ELSE IF info.options.has_buffer_size /\ ~IsNumber(info.options.buffer_size)
    THEN ErrBufferSizeType
    ELSE NoError

InvalidOptions(info) ==
    info.len > 3 /\ (~WellTypedOptions(info) \/ GivenTileSize(info) <= 0)

\* C30: the constructor checks its inputs in a fixed order and reports only
\* the first failure: argument count, numeric types of z/x/y, negativity,
\* x range, y range, the options object type, tile_size, buffer_size type,
\* then tile_size + 2*buffer_size; so an invalid address combined with
\* invalid options always yields the address error, and an address with
\* both x and y out of range yields the x error.
C30_FirstFailureReported ==
    ret.op = "new" =>
        /\ (NumericAddress(ret.info) => ret.info.z.v < INT64_DIGITS) =>
              IF FirstFailure(ret.info) # NoError
              THEN ret.status = "error" /\ ret.msg = FirstFailure(ret.info)
              ELSE ret.msg \in {NoError, ErrBuffer}
        /\ (NumericAddress(ret.info)
            /\ ~ValidAddress(ret.info.z.v, ret.info.x.v, ret.info.y.v)) =>
              /\ ret.status = "error" /\ ret.msg \in AddressErrors
              /\ (ret.info.z.v >= 0 /\ ret.info.x.v >= 0 /\ ret.info.y.v >= 0
                  /\ ~BelowPow2(ret.info.x.v, ret.info.z.v)
                  /\ ~BelowPow2(ret.info.y.v, ret.info.z.v)) =>
                    ret.msg = ErrXRange

\* x and y both out of range together with a tile size that is not positive
C30_Witness ==
    /\ ret.op = "new" /\ NumericAddress(ret.info)
    /\ ret.info.z.v >= 0
    /\ ~BelowPow2(ret.info.x.v, ret.info.z.v)
    /\ ~BelowPow2(ret.info.y.v, ret.info.z.v)
    /\ InvalidOptions(ret.info)
    /\ ret.msg = ErrXRange

----------------------------------------------------------------------------

Init ==
    /\ tile_ = NoTile
    /\ ret = NoCall
    /\ vtiles = <<>>
    /\ callbacks = <<>>

Next ==
    \/ Constructor
    \/ set_tile_x
    \/ set_tile_y
    \/ set_tile_z
    \/ set_tile_size
    \/ set_buffer_size

Spec == Init /\ [][Next]_vars

\* a tile with content, and the two reports over it
NextReport ==
    \/ ConstructorExternal
    \/ reportGeometrySimplicitySync
    \/ reportGeometryValiditySync

SpecReport == Init /\ [][NextReport]_vars

\* several tiles, and the operations that return before doing anything
NextComposite ==
    \/ ConstructorTarget
    \/ ConstructorSource
    \/ compositeSync
    \/ composite
    \/ layer
    \/ clearSync
    \/ clear
    \/ addImage
    \/ addImageBuffer
    \/ render
    \/ reportGeometrySimplicity
    \/ reportGeometryValidity
    \/ addImageSync
    \/ addImageBufferSync
    \/ InstanceMethodCall

\* the program goes on making calls
SpecComposite == Init /\ [][NextComposite]_vars /\ WF_vars(NextComposite)

====
